---- MODULE Spec2Model ----
(***************************************************************************)
(* gap_filling/data_handler.py: the DataHandler between the emissions      *)
(* application and the climatetrace database.                              *)
(*                                                                         *)
(*   Spec        the write paths (write_data, insert_with_update) against  *)
(*               one psycopg2 connection and the country_emissions table   *)
(*   SpecUpsert  the chunking loop and the ON CONFLICT clause builder of   *)
(*               insert_with_update, with the real chunk size              *)
(*   SpecQuery   the read paths (load_data, get_ghgs)                      *)
(***************************************************************************)
EXTENDS Integers, Sequences, FiniteSets, TLC

\* Python None, SQL NULL.
None == "None"

(***************************************************************************)
(* Bounds of the model.                                                    *)
(***************************************************************************)
\* calls made on one handler
MaxCalls == 1
\* rows of one write_data frame
MaxRows == 2
\* batches of one insert_with_update call (Spec)
MaxBatches == 2
\* rows of one batch that touch the modelled keys (Spec)
MaxBatchRows == 1
\* full chunks of the largest e_data (SpecUpsert)
MaxChunks == 2
\* rows of the small country_emissions tables the read paths query (SpecQuery)
MaxTableRows == 1

Min(a, b) == IF a < b THEN a ELSE b

Range(s) == {s[i] : i \in 1..Len(s)}

(***************************************************************************)
(* Module-level mapping, lines 12-15.                                      *)
(***************************************************************************)
INSERT_MAPPING_0 ==
    [k \in {"ois", "i3c", "re", "g", "eq", "equ", "st", "et", "cd"} |->
        CASE k = "ois" -> "original_inventory_sector"
          [] k = "i3c" -> "iso3_country"
          [] k = "re"  -> "reporting_entity"
          [] k = "g"   -> "gas"
          [] k = "eq"  -> "emissions_quantity"
          [] k = "equ" -> "emissions_quantity_units"
          [] k = "st"  -> "start_time"
          [] k = "et"  -> "end_time"
          [] k = "cd"  -> "created_date"]

\* INSERT_MAPPING["mmd"] = "measurement_method_doi_or_url", line 172.
AddMmd(m) ==
    [k \in DOMAIN m \cup {"mmd"} |->
        IF k = "mmd" THEN "measurement_method_doi_or_url" ELSE m[k]]

(***************************************************************************)
(* The two INSERT templates of write_data: the column list and, in the     *)
(* same order, the %(key)s placeholders of the VALUES list.                *)
(***************************************************************************)
ClimateTraceInsert ==
    [cols |-> <<"original_inventory_sector", "iso3_country", "reporting_entity",
                "gas", "emissions_quantity", "emissions_quantity_units",
                "start_time", "end_time", "created_date">>,
     keys |-> <<"ois", "i3c", "re", "g", "eq", "equ", "st", "et", "cd">>,
     bound |-> TRUE]

EdgarInsert ==
    [cols |-> <<"original_inventory_sector", "iso3_country", "reporting_entity",
                "gas", "emissions_quantity", "emissions_quantity_units",
                "measurement_method_doi_or_url", "start_time", "end_time">>,
     keys |-> <<"ois", "i3c", "re", "g", "eq", "equ", "mmd", "st", "et">>,
     bound |-> TRUE]

\* insert_str when neither branch of lines 163-176 ran: the name is unbound.
Unbound == [cols |-> <<>>, keys |-> <<>>, bound |-> FALSE]

Placeholders(tpl) == Range(tpl.keys)

(***************************************************************************)
(* The country_emissions table.  A stored row gives every column a value   *)
(* or NULL.  The columns of the uniqueness constraint country_duplicates   *)
(* (named at line 152) are fixed by the database schema.                   *)
(***************************************************************************)
TableColumns ==
    {"original_inventory_sector", "iso3_country", "reporting_entity", "gas",
     "emissions_quantity", "emissions_quantity_units",
     "measurement_method_doi_or_url", "start_time", "end_time",
     "created_date", "modified_date"}

ConflictColumns ==
    {"original_inventory_sector", "iso3_country", "reporting_entity", "gas",
     "start_time"}

\* Values the modelled frames draw from.
Gases == {"co2", "ch4"}
\* (emissions_quantity, emissions_quantity_units) of a row: plain, zero,
\* NULL quantity, NULL units.
Measures == {<<"5", "t">>, <<"0", "t">>, <<None, "t">>, <<"5", None>>}
Faults == {"none", "server", "client"}

\* Two rows collide on the constraint when all its columns are equal and
\* not NULL.
Conflicts(r, s) ==
    \A c \in ConflictColumns : r[c] # None /\ r[c] = s[c]

StoredRow(cols, vals) ==
    [c \in TableColumns |-> IF c \in DOMAIN vals /\ c \in cols THEN vals[c] ELSE None]

(***************************************************************************)
(* Error messages of the server (psycopg2's e.pgerror), as words.          *)
(***************************************************************************)
DuplicateMsg ==
    <<"ERROR", ":", "duplicate", "key", "value", "violates", "unique",
      "constraint", "DETAIL", ":", "Key", "already", "exists">>
ServerMsg ==
    <<"ERROR", ":", "null", "value", "violates", "not-null", "constraint",
      "DETAIL", ":", "Failing", "row">>
AbortedMsg ==
    <<"ERROR", ":", "current", "transaction", "is", "aborted">>
CardinalityMsg ==
    <<"ERROR", ":", "ON", "CONFLICT", "DO", "UPDATE", "command", "cannot",
      "affect", "row", "a", "second", "time">>

\* str.split(sep): the pieces between the separators.
RECURSIVE Split(_, _)
Split(t, sep) ==
    IF \A i \in 1..Len(t) : t[i] # sep
    THEN <<t>>
    ELSE LET j == CHOOSE i \in 1..Len(t) :
                      t[i] = sep /\ \A h \in 1..(i - 1) : t[h] # sep
         IN  <<SubSeq(t, 1, j - 1)>> \o Split(SubSeq(t, j + 1, Len(t)), sep)

\* An exception: its class and its pgerror text (has_text is FALSE when the
\* exception has no pgerror attribute or the attribute is None).
Exc(cls, pgerror) == [cls |-> cls, has_text |-> TRUE, pgerror |-> pgerror]
ExcNoText(cls) == [cls |-> cls, has_text |-> FALSE, pgerror |-> <<>>]
NoExc == ExcNoText("none")

(***************************************************************************)
(* curs.execute(insert_str, data_row_dict), line 185, on a connection      *)
(* with autocommit off: the first statement opens a transaction, a failed  *)
(* statement aborts it, and an aborted transaction refuses every           *)
(* statement until it is ended.                                            *)
(***************************************************************************)
ExecuteInsert(tpl, args, fault, st, tbl) ==
    LET unchanged(e) == [exc |-> e, status |-> st, working |-> tbl]
        failed(e)    == [exc |-> e, status |-> "failed", working |-> tbl]
    IN  IF ~tpl.bound
        THEN unchanged(ExcNoText("UnboundLocalError"))
        ELSE IF ~(Placeholders(tpl) \subseteq DOMAIN args)
        THEN unchanged(ExcNoText("KeyError"))
        ELSE IF fault = "client"
        THEN unchanged(ExcNoText("ProgrammingError"))
        ELSE IF st = "failed"
        THEN failed(Exc("InFailedSqlTransaction", AbortedMsg))
        ELSE LET vals == [c \in Range(tpl.cols) |->
                            args[tpl.keys[CHOOSE i \in 1..Len(tpl.cols) : tpl.cols[i] = c]]]
                 row  == StoredRow(Range(tpl.cols), vals)
             IN  IF fault = "server"
                 THEN failed(Exc("NotNullViolation", ServerMsg))
                 ELSE IF \E s \in tbl : Conflicts(row, s)
                 THEN failed(Exc("UniqueViolation", DuplicateMsg))
                 ELSE [exc |-> NoExc, status |-> "intrans", working |-> tbl \cup {row}]

(***************************************************************************)
(* The except block of write_data, lines 186-190: what becomes of the      *)
(* caught exception e.                                                     *)
(***************************************************************************)
\* A faulty DuplicateIn: looks at the first piece of the message.
DuplicateInFirstPiece(t) == "duplicate" \in Range(Split(t, ":")[1])

DuplicateIn(t) == "duplicate" \in Range(Split(t, ":")[2])

Handle(e) ==
    IF ~e.has_text THEN "raise"                  \* AttributeError at 187/188
    ELSE IF Len(Split(e.pgerror, ":")) < 2 THEN "raise"   \* IndexError at 188
    ELSE IF DuplicateIn(e.pgerror) THEN "continue"
    ELSE "commit"                                 \* falls out of the except block

(***************************************************************************)
(* self.conn.commit(), lines 158 and 191.  Ending an aborted transaction   *)
(* rolls it back and raises nothing.                                       *)
(***************************************************************************)
\* A faulty Commit: the open transaction is dropped instead of made durable.
CommitDrops(st, tbl, durable) ==
    IF st = "idle" THEN [status |-> st, working |-> tbl, committed |-> durable]
    ELSE [status |-> "idle", working |-> durable, committed |-> durable]

Commit(st, tbl, durable) ==
    IF st = "intrans" THEN [status |-> "idle", working |-> tbl, committed |-> tbl]
    ELSE IF st = "failed" THEN [status |-> "idle", working |-> durable, committed |-> durable]
    ELSE [status |-> st, working |-> tbl, committed |-> durable]

(***************************************************************************)
(* insert_with_update, lines 108-146: the three clauses of the ON CONFLICT *)
(* part, built from the columns of the batch's first row (data[0]), in the *)
(* order of its keys.  A clause is the sequence of its pieces; the code    *)
(* appends a connective after every comparison and cuts the last one off   *)
(* with a slice.                                                           *)
(***************************************************************************)
Tok(tok, col, op) == [tok |-> tok, col |-> col, op |-> op]

\* dict.pop(x) for each x of xs: the remaining keys in order; a missing key
\* is a KeyError, reported by PopFails.
Pop(cols, xs) == SelectSeq(cols, LAMBDA c : c \notin xs)
PopFails(cols, xs) == ~(xs \subseteq Range(cols))

\* s[:-1] on a sequence of pieces: drops the last piece, if any.
DropLast(s) == IF Len(s) = 0 THEN s ELSE SubSeq(s, 1, Len(s) - 1)

\* The pieces of the loops of lines 130-134 and 139-145: each comparison
\* followed by the connective.
Join(terms, conn) ==
    [i \in 1..(2 * Len(terms)) |->
        IF i % 2 = 1 THEN terms[(i + 1) \div 2] ELSE Tok(conn, "", "")]

\* lines 121-126
SetStatement(cols) ==
    LET kept == SelectSeq(cols, LAMBDA d : d # "created_date")
    IN  [i \in 1..Len(kept) |-> Tok("set", kept[i], "excluded")]
            \o <<Tok("set", "modified_date", "NOW()")>>

\* lines 109, 115-116, 129-135
WhereTerm(d) ==
    IF d = "location" THEN Tok("cmp", d, "ST_AsText =") ELSE Tok("cmp", d, "=")

WhereStatement(cols) ==
    LET base_where == Pop(cols, {"created_date", "emissions_quantity"})
    IN  DropLast(Join([i \in 1..Len(base_where) |-> WhereTerm(base_where[i])], "AND"))

\* A faulty AndTerm: emissions_quantity compared without coalesce.
AndTermPlain(d) ==
    IF d = "location" THEN Tok("cmp", d, "ST_AsText !=") ELSE Tok("cmp", d, "!=")

\* lines 110, 118-119, 138-146
AndTerm(d) ==
    IF d = "location" THEN Tok("cmp", d, "ST_AsText !=")
    ELSE IF d = "emissions_quantity" THEN Tok("cmp", d, "coalesce !=")
    ELSE Tok("cmp", d, "!=")

AndStatement(cols) ==
    LET base_and == Pop(cols, {"created_date"})
    IN  DropLast(<<Tok("(", "", "")>>
                     \o Join([i \in 1..Len(base_and) |-> AndTerm(base_and[i])], "OR"))
            \o <<Tok(")", "", "")>>

(***************************************************************************)
(* How the server evaluates the clauses: SQL's three-valued logic, "T",    *)
(* "F" or "U" (unknown, whenever an operand is NULL).                      *)
(***************************************************************************)
SqlEq(a, b) == IF a = None \/ b = None THEN "U" ELSE IF a = b THEN "T" ELSE "F"
SqlNe(a, b) == IF a = None \/ b = None THEN "U" ELSE IF a = b THEN "F" ELSE "T"
Coalesce(a, d) == IF a = None THEN d ELSE a
\* ST_AsText gives the WKT text of a geometry: the SRID of an EWKT value is
\* not part of it, and NULL stays NULL.
ST_AsText(g) ==
    CASE g = "SRID=4326;POINT(1 2)" -> "POINT(1 2)"
      [] g = "SRID=3857;POINT(1 2)" -> "POINT(1 2)"
      [] OTHER -> g

EvalCmp(t, stored, excluded) ==
    CASE t.op = "=" -> SqlEq(stored[t.col], excluded[t.col])
      [] t.op = "!=" -> SqlNe(stored[t.col], excluded[t.col])
      [] t.op = "ST_AsText =" -> SqlEq(ST_AsText(stored[t.col]), ST_AsText(excluded[t.col]))
      [] t.op = "ST_AsText !=" -> SqlNe(ST_AsText(stored[t.col]), ST_AsText(excluded[t.col]))
      [] t.op = "coalesce !=" -> SqlNe(Coalesce(stored[t.col], "0"), excluded[t.col])

\* a AND b AND ...
EvalWhere(clause, stored, excluded) ==
    LET vs == {EvalCmp(clause[i], stored, excluded) :
                   i \in {j \in 1..Len(clause) : clause[j].tok = "cmp"}}
    IN  IF "F" \in vs THEN "F" ELSE IF "U" \in vs THEN "U" ELSE "T"

\* ( a OR b OR ... )
EvalAnd(clause, stored, excluded) ==
    LET vs == {EvalCmp(clause[i], stored, excluded) :
                   i \in {j \in 1..Len(clause) : clause[j].tok = "cmp"}}
    IN  IF "T" \in vs THEN "T" ELSE IF "U" \in vs THEN "U" ELSE "F"

\* DO UPDATE SET ... of line 153 applied to the stored row.
ApplySet(set_statement, stored, excluded, now) ==
    [c \in TableColumns |->
        IF \E i \in 1..Len(set_statement) :
               set_statement[i].col = c /\ set_statement[i].op = "excluded"
        THEN excluded[c]
        ELSE IF \E i \in 1..Len(set_statement) :
               set_statement[i].col = c /\ set_statement[i].op = "NOW()"
        THEN now
        ELSE stored[c]]

(***************************************************************************)
(* cur.execute(insert_str, vals), lines 150-157: one multi-row INSERT ...  *)
(* ON CONFLICT ON CONSTRAINT country_duplicates DO UPDATE SET ... WHERE    *)
(* ... AND (...).  The rows are taken in order; a proposed row that        *)
(* collides with a row this same command inserted or updated fails the     *)
(* whole command.                                                          *)
(***************************************************************************)
RECURSIVE UpsertRows(_, _, _, _, _)
UpsertRows(stmt, rows, tbl, touched, now) ==
    IF Len(rows) = 0 THEN [ok |-> TRUE, tbl |-> tbl]
    ELSE LET r    == StoredRow(Range(stmt.cols), Head(rows))
             hits == {s \in tbl : Conflicts(r, s)}
         IN  IF hits = {}
             THEN UpsertRows(stmt, Tail(rows), tbl \cup {r}, touched \cup {r}, now)
             ELSE LET s == CHOOSE x \in hits : TRUE
                  IN  IF s \in touched
                      THEN [ok |-> FALSE, tbl |-> tbl]
                      ELSE IF /\ EvalWhere(stmt.where_statement, s, r) = "T"
                              /\ EvalAnd(stmt.and_statement, s, r) = "T"
                      THEN LET u == ApplySet(stmt.set_statement, s, r, now)
                           IN  UpsertRows(stmt, Tail(rows), (tbl \ {s}) \cup {u},
                                          touched \cup {u}, now)
                      ELSE UpsertRows(stmt, Tail(rows), tbl, touched, now)

\* insert_str of lines 150-156, for a batch whose first row has these keys.
UpsertStatement(cols) ==
    [cols |-> cols,
     set_statement |-> SetStatement(cols),
     where_statement |-> WhereStatement(cols),
     and_statement |-> AndStatement(cols)]

ExecuteUpsert(cols, rows, fault, st, tbl, now) ==
    LET unchanged(e) == [exc |-> e, status |-> st, working |-> tbl]
        failed(e)    == [exc |-> e, status |-> "failed", working |-> tbl]
    IN  IF fault = "client"
        THEN unchanged(ExcNoText("ProgrammingError"))       \* cur.mogrify, line 149
        ELSE IF st = "failed"
        THEN failed(Exc("InFailedSqlTransaction", AbortedMsg))
        ELSE IF fault = "server"
        THEN failed(Exc("NotNullViolation", ServerMsg))
        ELSE LET u == UpsertRows(UpsertStatement(cols), rows, tbl, {}, now)
             IN  IF u.ok
                 THEN [exc |-> NoExc, status |-> "intrans", working |-> u.tbl]
                 ELSE failed(Exc("CardinalityViolation", CardinalityMsg))

(***************************************************************************)
(* State of the write paths.                                               *)
(***************************************************************************)
VARIABLES
    INSERT_MAPPING,   \* the module-level dict
    committed,        \* country_emissions as other sessions see it
    working,          \* country_emissions as this connection's transaction sees it
    status,           \* the connection: "idle", "intrans" or "failed"
    pc,               \* "idle", "write_data" or "insert_with_update"
    rows_type,        \* argument of the last write_data
    frame_cols,       \* columns of the frame passed to the last call
    created_date,     \* the stamp the frame's rows carry
    log,              \* one entry per row or batch the call has reached
    result,           \* how the last call ended: "none", "returned", "raised"
    calls             \* calls started so far; also the clock

(***************************************************************************)
(* State of one insert_with_update call seen at full size (SpecUpsert):    *)
(* rows are known by their index in data_dict.                             *)
(***************************************************************************)
VARIABLES
    e_cols,           \* keys of e_data's rows, in order
    e_len,            \* len(data_dict)
    e_cut,            \* rows before this index carry created_date "d1", the rest "d2"
    u_pc,             \* "loop", "returned" or "raised"
    u_i,              \* i of line 97
    u_batches,        \* the statements executed, in order
    u_commits         \* calls of self.conn.commit()

varsUpsert == <<e_cols, e_len, e_cut, u_pc, u_i, u_batches, u_commits>>

(***************************************************************************)
(* State of the read paths (SpecQuery).                                    *)
(***************************************************************************)
VARIABLES
    country_emissions,  \* the rows load_data reads
    ghgs,               \* the rows get_ghgs reads
    q_call,             \* the last call and its arguments
    q_sql,              \* which statement the call executed
    q_colnames,         \* curs.description, line 77 and line 90
    q_rows              \* curs.fetchall()

varsQuery == <<country_emissions, ghgs, q_call, q_sql, q_colnames, q_rows>>

varsWrite == <<INSERT_MAPPING, committed, working, status, pc, rows_type,
               frame_cols, created_date, log, result, calls>>

\* Columns of the frames, in order.
FrameBase ==
    <<"original_inventory_sector", "iso3_country", "reporting_entity", "gas",
      "emissions_quantity", "emissions_quantity_units", "start_time", "end_time">>

\* One row of a frame with the given columns.
FrameRow(cols, gas, qty, units, cd) ==
    [c \in Range(cols) |->
        CASE c = "original_inventory_sector" -> "sector"
          [] c = "iso3_country" -> "USA"
          [] c = "reporting_entity" -> "entity"
          [] c = "gas" -> gas
          [] c = "emissions_quantity" -> qty
          [] c = "emissions_quantity_units" -> units
          [] c = "start_time" -> "2013"
          [] c = "end_time" -> "2014"
          [] c = "created_date" -> cd
          [] OTHER -> "doi"]

\* Rows the table may hold before the handler is constructed.
Preexisting ==
    {StoredRow(Range(FrameBase) \cup {"created_date"},
               FrameRow(FrameBase \o <<"created_date">>, "co2", q[1], q[2], "0")) :
        q \in {<<"5", "t">>, <<"5", None>>}}

InitWrite ==
    /\ INSERT_MAPPING = INSERT_MAPPING_0
    /\ committed \in {{}} \cup {{r} : r \in Preexisting}
    /\ working = committed
    /\ status = "idle"
    /\ pc = "idle"
    /\ rows_type = None
    /\ frame_cols = <<>>
    /\ created_date = None
    /\ log = <<>>
    /\ result = "none"
    /\ calls = 0

\* What the log keeps of a row or batch: the operation, the gases of its
\* rows, whether the row was new to the table and sound, what execute did,
\* and what the code did with that.
Entry(op, gases, fresh, x, handled) ==
    [op |-> op, gases |-> gases, fresh |-> fresh,
     outcome |-> IF x.exc = NoExc THEN "ok" ELSE x.exc.cls,
     handled |-> handled]

\* insert_str as lines 163-176 leave it for the call's rows_type.
InsertStr(rt) ==
    CASE rt = "climate-trace" -> ClimateTraceInsert
      [] rt = "edgar" -> EdgarInsert
      [] OTHER -> Unbound

(***************************************************************************)
(* write_data, lines 160-178: stamp the frame, choose the template, and    *)
(* (edgar) extend the module-level mapping.                                *)
(***************************************************************************)
WriteDataBegin(rt, has_mmd) ==
    /\ pc = "idle"
    /\ calls < MaxCalls
    /\ calls' = calls + 1
    /\ created_date' = ToString(calls')
    /\ frame_cols' = FrameBase
                        \o (IF has_mmd THEN <<"measurement_method_doi_or_url">> ELSE <<>>)
                        \o <<"created_date">>
    /\ rows_type' = rt
    /\ INSERT_MAPPING' = IF rt = "edgar" THEN AddMmd(INSERT_MAPPING) ELSE INSERT_MAPPING
    /\ pc' = "write_data"
    /\ log' = <<>>
    /\ result' = "none"
    /\ UNCHANGED <<committed, working, status>>
    /\ UNCHANGED <<varsUpsert, varsQuery>>

(***************************************************************************)
(* One iteration of the loop of lines 181-191 on one row of the frame:     *)
(* what it leaves of the connection and the table, how it is logged, and   *)
(* whether the call goes on.                                               *)
(***************************************************************************)
Step(entry, st, tbl, durable, raised) ==
    [entry |-> entry, status |-> st, working |-> tbl, committed |-> durable,
     raised |-> raised]

WriteRow(mapping, cols, rt, row, fault, st, tbl, durable) ==
    LET fresh == fault = "none" /\ ~\E s \in durable : Conflicts(row, s)
        entry(x, handled) == Entry("write_data", {row["gas"]}, fresh, x, handled)
    IN  IF \E k \in DOMAIN mapping : mapping[k] \notin Range(cols)
        THEN \* KeyError at line 183, outside the try
             Step(entry([exc |-> ExcNoText("KeyError")], "raised"), st, tbl, durable, TRUE)
        ELSE LET data_row_dict == [k \in DOMAIN mapping |-> row[mapping[k]]]
             IN  \* the body of the LET is evaluated once per x
                 CHOOSE o \in
                   {LET h == IF x.exc = NoExc THEN "commit" ELSE Handle(x.exc)
                        c == Commit(x.status, x.working, durable)
                    IN  CASE h = "raise" ->
                               Step(entry(x, "raised"), x.status, x.working, durable, TRUE)
                          [] h = "continue" ->
                               Step(entry(x, "skipped"), x.status, x.working, durable, FALSE)
                          [] h = "commit" ->
                               Step(entry(x, IF x.exc = NoExc THEN "committed"
                                                              ELSE "swallowed"),
                                    c.status, c.working, c.committed, FALSE)
                    : x \in {ExecuteInsert(InsertStr(rt), data_row_dict, fault, st, tbl)}} :
                   TRUE

WriteDataRow(gas, measure, fault) ==
    /\ pc = "write_data"
    /\ Len(log) < MaxRows
    /\ \E o \in {WriteRow(INSERT_MAPPING, frame_cols, rows_type,
                          FrameRow(frame_cols, gas, measure[1], measure[2], created_date),
                          fault, status, working, committed)} :
          /\ log' = Append(log, o.entry)
          /\ status' = o.status
          /\ working' = o.working
          /\ committed' = o.committed
          /\ pc' = IF o.raised THEN "idle" ELSE pc
          /\ result' = IF o.raised THEN "raised" ELSE result
    /\ UNCHANGED <<INSERT_MAPPING, rows_type, frame_cols, created_date, calls>>
    /\ UNCHANGED <<varsUpsert, varsQuery>>

\* The frame has no more rows: write_data returns.
WriteDataEnd ==
    /\ pc = "write_data"
    /\ pc' = "idle"
    /\ result' = "returned"
    /\ UNCHANGED <<INSERT_MAPPING, committed, working, status, rows_type,
                   frame_cols, created_date, log, calls>>
    /\ UNCHANGED <<varsUpsert, varsQuery>>

(***************************************************************************)
(* insert_with_update, lines 93-96: e_data already carries its             *)
(* created_date column.                                                    *)
(***************************************************************************)
UpsertBegin ==
    /\ pc = "idle"
    /\ calls < MaxCalls
    /\ calls' = calls + 1
    /\ created_date' = ToString(calls')
    /\ frame_cols' = FrameBase \o <<"created_date">>
    /\ pc' = "insert_with_update"
    /\ log' = <<>>
    /\ result' = "none"
    /\ UNCHANGED <<INSERT_MAPPING, committed, working, status, rows_type>>
    /\ UNCHANGED <<varsUpsert, varsQuery>>

\* data = data_dict[i:i+cs], line 99: the batch's rows as dicts.
BatchRows(cols, rows, cd) ==
    [i \in 1..Len(rows) |-> FrameRow(cols, rows[i][1], rows[i][2][1], rows[i][2][2], cd)]

(***************************************************************************)
(* One iteration of the loop of lines 97-158 on one batch: nothing catches *)
(* an exception of the statement; a statement that ran is committed.       *)
(***************************************************************************)
UpsertStep(cols, data, fault, st, tbl, durable, now) ==
    CHOOSE o \in
      {LET c == Commit(x.status, x.working, durable)
           entry(handled) == Entry("insert_with_update",
                                   {data[i]["gas"] : i \in 1..Len(data)}, FALSE, x, handled)
       IN  IF x.exc # NoExc
           THEN Step(entry("raised"), x.status, x.working, durable, TRUE)
           ELSE Step(entry("committed"), c.status, c.working, c.committed, FALSE)
       : x \in {ExecuteUpsert(cols, data, fault, st, tbl, now)}} :
      TRUE

\* rows are the rows of data_dict[i:i+cs] that fall on the modelled keys.
UpsertBatch(rows, fault) ==
    /\ pc = "insert_with_update"
    /\ Len(log) < MaxBatches
    /\ \E o \in {UpsertStep(frame_cols, BatchRows(frame_cols, rows, created_date), fault,
                            status, working, committed, created_date)} :
          /\ log' = Append(log, o.entry)
          /\ status' = o.status
          /\ working' = o.working
          /\ committed' = o.committed
          /\ pc' = IF o.raised THEN "idle" ELSE pc
          /\ result' = IF o.raised THEN "raised" ELSE result
    /\ UNCHANGED <<INSERT_MAPPING, rows_type, frame_cols, created_date, calls>>
    /\ UNCHANGED <<varsUpsert, varsQuery>>

\* range() is exhausted: insert_with_update returns.
UpsertEnd ==
    /\ pc = "insert_with_update"
    /\ pc' = "idle"
    /\ result' = "returned"
    /\ UNCHANGED <<INSERT_MAPPING, committed, working, status, rows_type,
                   frame_cols, created_date, log, calls>>
    /\ UNCHANGED <<varsUpsert, varsQuery>>

\* The rows a modelled frame or batch draws from.
RowValues == Gases \X Measures
BatchValues == UNION {[1..n -> RowValues] : n \in 1..MaxBatchRows}

Next ==
    \/ \E rt \in {"climate-trace", "edgar", None}, has_mmd \in BOOLEAN :
           WriteDataBegin(rt, has_mmd)
    \/ \E v \in RowValues, fault \in Faults : WriteDataRow(v[1], v[2], fault)
    \/ WriteDataEnd
    \/ UpsertBegin
    \/ \E rows \in BatchValues : UpsertBatch(rows, "none")
    \/ \E gas \in Gases, fault \in Faults \ {"none"} :
           UpsertBatch(<<<<gas, <<"5", "t">>>>>>, fault)
    \/ UpsertEnd

vars == <<varsWrite, varsUpsert, varsQuery>>

\* The parts of the state a specification leaves alone.
UpsertIdle ==
    /\ e_cols = <<>> /\ e_len = 0 /\ e_cut = 0
    /\ u_pc = "returned" /\ u_i = 0 /\ u_batches = <<>> /\ u_commits = 0

QueryIdle ==
    /\ country_emissions = {} /\ ghgs = {}
    /\ q_call = [op |-> "none"] /\ q_sql = "none" /\ q_colnames = <<>> /\ q_rows = {}

WriteIdle ==
    /\ INSERT_MAPPING = INSERT_MAPPING_0
    /\ committed = {} /\ working = {} /\ status = "idle"
    /\ pc = "idle" /\ rows_type = None /\ frame_cols = <<>> /\ created_date = None
    /\ log = <<>> /\ result = "none" /\ calls = 0

Init == InitWrite /\ UpsertIdle /\ QueryIdle

Spec == Init /\ [][Next]_vars

(***************************************************************************)
(* insert_with_update at full size, lines 93-158.  The rows of e_data are  *)
(* known by their index; row j carries created_date DateOf(j).             *)
(***************************************************************************)
\* cs = 1000, line 96
cs == 1000

\* A faulty Slice: the slice stops one row early.
SliceShort(i, n) == [lo |-> Min(i, n), hi |-> Min(i + cs - 1, n)]

\* data_dict[i:i+cs], line 99: the indices lo..hi-1.
Slice(i, n) == [lo |-> Min(i, n), hi |-> Min(i + cs, n)]

DateOf(j) == IF j < e_cut THEN "d1" ELSE "d2"

\* vals, lines 100-106: every value of every row of the batch, as the row
\* holds it; here the created_date values among them.
ValsDates(lo, hi) == {DateOf(j) : j \in lo..(hi - 1)}

\* Sizes of e_data and the places where its created_date changes.
Sizes ==
    {0, 1, cs - 1, cs, cs + 1, cs + 500}
        \cup {k * cs : k \in 2..MaxChunks} \cup {k * cs + 1 : k \in 2..MaxChunks}
Cuts(n) == {c \in {0, 1, cs, cs + 1} : c <= n}

\* Column orders of e_data.
Frames ==
    {FrameBase \o <<"created_date">>,
     FrameBase \o <<"location", "created_date">>,
     <<"location", "created_date">> \o FrameBase,
     <<"created_date", "emissions_quantity">>,
     FrameBase,
     <<"gas", "location", "created_date">>}

CallUpsert ==
    /\ e_cols \in Frames
    /\ e_len \in Sizes
    /\ e_cut \in Cuts(e_len)
    /\ u_pc = "loop"
    /\ u_i = 0
    /\ u_batches = <<>>
    /\ u_commits = 0

\* One iteration of the loop of lines 97-158.
ChunkBatch ==
    /\ u_pc = "loop"
    /\ u_i < e_len
    /\ LET data == Slice(u_i, e_len)
       IN  IF \/ PopFails(e_cols, {"created_date"})
              \/ PopFails(e_cols, {"created_date", "emissions_quantity"})
           THEN \* KeyError at line 113 or 116
                /\ u_pc' = "raised"
                /\ UNCHANGED <<u_i, u_batches, u_commits>>
           ELSE /\ u_batches' = Append(u_batches,
                                   [lo |-> data.lo, hi |-> data.hi,
                                    dates |-> ValsDates(data.lo, data.hi),
                                    stmt |-> UpsertStatement(e_cols)])
                /\ u_commits' = u_commits + 1
                /\ u_i' = u_i + cs
                /\ UNCHANGED u_pc
    /\ UNCHANGED <<e_cols, e_len, e_cut>>
    /\ UNCHANGED <<varsWrite, varsQuery>>

\* range(0, len(data_dict), cs) is exhausted.
ChunkEnd ==
    /\ u_pc = "loop"
    /\ u_i >= e_len
    /\ u_pc' = "returned"
    /\ UNCHANGED <<e_cols, e_len, e_cut, u_i, u_batches, u_commits>>
    /\ UNCHANGED <<varsWrite, varsQuery>>

NextUpsert == ChunkBatch \/ ChunkEnd

InitUpsert == WriteIdle /\ CallUpsert /\ QueryIdle

SpecUpsert == InitUpsert /\ [][NextUpsert]_vars

(***************************************************************************)
(* Properties of insert_with_update at full size (SpecUpsert).             *)
(***************************************************************************)
Ceil(n, d) == (n + d - 1) \div d

\* The batches are consecutive slices of 0..e_len-1, none longer than cs,
\* each followed by one commit.
Chunked ==
    /\ Len(u_batches) = Ceil(e_len, cs)
    /\ u_commits = Len(u_batches)
    /\ \A k \in 1..Len(u_batches) :
          /\ u_batches[k].lo = (IF k = 1 THEN 0 ELSE u_batches[k - 1].hi)
          /\ u_batches[k].hi - u_batches[k].lo \in 1..cs
    /\ Len(u_batches) > 0 => u_batches[Len(u_batches)].hi = e_len

\* C4 as stated: a call on n rows issues ceil(n/1000) batches in input
\* order, each of at most 1000 rows and each followed by a commit, and all
\* rows of all batches carry one created_date value.
C4_BatchesShareOneDate ==
    u_pc = "returned" =>
        /\ Chunked
        /\ Cardinality(UNION {u_batches[k].dates : k \in 1..Len(u_batches)}) <= 1

\* C4 amended: a call that returns has issued those batches, and each row
\* went out with the created_date it carries in e_data.
C4_BatchesKeepInputDates ==
    u_pc = "returned" =>
        /\ Chunked
        /\ \A k \in 1..Len(u_batches) :
              u_batches[k].dates =
                  {IF j < e_cut THEN "d1" ELSE "d2" :
                       j \in u_batches[k].lo..(u_batches[k].hi - 1)}

C4_Witness ==
    /\ u_pc = "returned"
    /\ e_len = 1500
    /\ Len(u_batches) = 2
    /\ u_batches[1].hi - u_batches[1].lo = 1000
    /\ u_batches[2].hi - u_batches[2].lo = 500
    /\ u_batches[1].dates # u_batches[2].dates

CmpCols(clause) ==
    {clause[i].col : i \in {j \in 1..Len(clause) : clause[j].tok = "cmp"}}

\* Comparisons at the odd places, the connective between them, none after
\* the last.
Alternates(clause, conn) ==
    /\ Len(clause) > 0 => Len(clause) % 2 = 1
    /\ \A i \in 1..Len(clause) :
          clause[i].tok = (IF i % 2 = 1 THEN "cmp" ELSE conn)

\* C9: for a batch with columns C, created_date and emissions_quantity
\* among them, SET assigns excluded.c to exactly C \ {created_date} and
\* NOW() to modified_date; WHERE is a conjunction of equalities over
\* exactly C \ {created_date, emissions_quantity}; AND is a parenthesised
\* disjunction of inequalities over exactly C \ {created_date}; location is
\* compared through ST_AsText and the stored emissions_quantity through
\* coalesce.
C9_ConflictClauses ==
    \A k \in 1..Len(u_batches) :
        LET C == Range(e_cols)
            st == u_batches[k].stmt
            inner == SubSeq(st.and_statement, 2, Len(st.and_statement) - 1)
        IN  /\ {"created_date", "emissions_quantity"} \subseteq C
            /\ {st.set_statement[i].col :
                  i \in {j \in 1..Len(st.set_statement) :
                            st.set_statement[j].op = "excluded"}} = C \ {"created_date"}
            /\ \A i \in 1..Len(st.set_statement) :
                  /\ st.set_statement[i].tok = "set"
                  /\ st.set_statement[i].col # "created_date"
                  /\ st.set_statement[i].op = "NOW()"
                        <=> st.set_statement[i].col = "modified_date"
            /\ Len(st.set_statement) = Cardinality(C)
            /\ CmpCols(st.where_statement) = C \ {"created_date", "emissions_quantity"}
            /\ Alternates(st.where_statement, "AND")
            /\ \A i \in 1..Len(st.where_statement) :
                  st.where_statement[i].tok = "cmp" =>
                      st.where_statement[i].op =
                          (IF st.where_statement[i].col = "location"
                           THEN "ST_AsText =" ELSE "=")
            /\ st.and_statement[1].tok = "("
            /\ st.and_statement[Len(st.and_statement)].tok = ")"
            /\ CmpCols(inner) = C \ {"created_date"}
            /\ Alternates(inner, "OR")
            /\ \A i \in 1..Len(inner) :
                  inner[i].tok = "cmp" =>
                      inner[i].op =
                          (CASE inner[i].col = "location" -> "ST_AsText !="
                             [] inner[i].col = "emissions_quantity" -> "coalesce !="
                             [] OTHER -> "!=")

C9_Witness ==
    /\ Len(u_batches) = 2
    /\ "location" \in Range(e_cols)
    /\ "gas" \in CmpCols(u_batches[2].stmt.where_statement)

(***************************************************************************)
(* The read paths, lines 53-91.  A query is the set of rows its WHERE      *)
(* clause is true of; a comparison with NULL is not true.                  *)
(***************************************************************************)
\* start_date=datetime.date(2013, 1, 1), line 54, as a year
DefaultStartDate == 2013

IsTrue(v) == v = "T"
SqlAnd(vs) == IF "F" \in vs THEN "F" ELSE IF "U" \in vs THEN "U" ELSE "T"
SqlGe(a, b) == IF a >= b THEN "T" ELSE "F"

\* A faulty LoadAll: the CO2e exclusion is left out.
LoadAllWithCo2e(tbl, source, start_date) ==
    {r \in tbl : IsTrue(SqlAnd({SqlEq(r.reporting_entity, source),
                                SqlGe(r.start_time, start_date)}))}

\* lines 58-62
LoadAll(tbl, source, start_date) ==
    {r \in tbl : IsTrue(SqlAnd({SqlEq(r.reporting_entity, source),
                                SqlGe(r.start_time, start_date),
                                SqlNe(r.gas, "co2e_100yr"),
                                SqlNe(r.gas, "co2e_20yr")}))}

\* lines 65-69
LoadGas(tbl, source, gas, start_date) ==
    {r \in tbl : IsTrue(SqlAnd({SqlEq(r.reporting_entity, source),
                                SqlEq(r.gas, gas),
                                SqlGe(r.start_time, start_date),
                                SqlNe(r.gas, "co2e_100yr"),
                                SqlNe(r.gas, "co2e_20yr")}))}

\* lines 71-75
LoadCo2e(tbl, source, gas, start_date) ==
    {r \in tbl : IsTrue(SqlAnd({SqlEq(r.reporting_entity, source),
                                SqlEq(r.gas, gas),
                                SqlGe(r.start_time, start_date)}))}

\* Python's truth value of a str or None.
Truthy(v) == v # None /\ v # ""

\* A faulty GhgsBranch: the sentinel is tested before the truth value.
GhgsBranchAllFirst(f_gas) ==
    IF f_gas = "all" THEN "all"
    ELSE IF Truthy(f_gas) THEN "category"
    ELSE "default"

\* The branch get_ghgs takes, lines 83-88.
GhgsBranch(f_gas) ==
    IF Truthy(f_gas) THEN "category"
    ELSE IF f_gas = "all" THEN "all"
    ELSE "default"

GhgsColumns == <<"f_gas_category", "lower_designation", "gwp_20yr", "gwp_100yr">>

\* line 84
GhgsCategory(tbl, f_gas) == {r \in tbl : IsTrue(SqlEq(r["f_gas_category"], f_gas))}
\* line 86
GhgsAll(tbl) == {r \in tbl : r["f_gas_category"] # None}
\* line 88
GhgsDefault(tbl) ==
    {[c \in {"gas", "co2e_20", "co2e_100"} |->
         CASE c = "gas" -> r["lower_designation"]
           [] c = "co2e_20" -> r["gwp_20yr"]
           [] c = "co2e_100" -> r["gwp_100yr"]] : r \in tbl}

\* Rows the two tables may hold.
EmissionRows ==
    [reporting_entity : {"edgar", "unfccc"},
     start_time : {2012, 2013, 2014},
     gas : {"co2", "co2e_100yr", "co2e_20yr", None}]

GhgRow(cat, name, g20, g100) ==
    [c \in Range(GhgsColumns) |->
        CASE c = "f_gas_category" -> cat
          [] c = "lower_designation" -> name
          [] c = "gwp_20yr" -> g20
          [] c = "gwp_100yr" -> g100]

GhgRows ==
    {GhgRow(None, "co2", "1", "1"), GhgRow("hfc", "hfc-23", "12400", "14600"),
     GhgRow("pfc", "cf4", "5300", "7380"), GhgRow("all", "sf6", "18300", "25200")}

UpTo(S, n) == {T \in SUBSET S : Cardinality(T) <= n}

CallQuery ==
    /\ country_emissions \in UpTo(EmissionRows, MaxTableRows) \cup {EmissionRows}
    /\ ghgs \in SUBSET GhgRows
    /\ q_call = [op |-> "none"]
    /\ q_sql = "none"
    /\ q_colnames = <<>>
    /\ q_rows = {}

\* load_data, lines 53-77, up to the rows and column names it fetched.
LoadData(source, gas, is_co2e, start_date) ==
    /\ q_call' = [op |-> "load_data", source |-> source, gas |-> gas,
                  is_co2e |-> is_co2e, start_date |-> start_date]
    /\ IF gas = None
       THEN /\ q_sql' = "load_all"
            /\ q_rows' = LoadAll(country_emissions, source, start_date)
            /\ q_colnames' = <<"original_inventory_sector", "reporting_entity",
                               "iso3_country", "gas", "emissions_quantity",
                               "emissions_quantity_units", "start_time">>
       ELSE /\ q_colnames' = <<"original_inventory_sector", "reporting_entity",
                               "gas", "emissions_quantity",
                               "emissions_quantity_units", "start_time">>
            /\ IF ~is_co2e
               THEN /\ q_sql' = "load_gas"
                    /\ q_rows' = LoadGas(country_emissions, source, gas, start_date)
               ELSE /\ q_sql' = "load_co2e"
                    /\ q_rows' = LoadCo2e(country_emissions, source, gas, start_date)
    /\ UNCHANGED <<country_emissions, ghgs>>
    /\ UNCHANGED <<varsWrite, varsUpsert>>

\* get_ghgs, lines 81-90, up to the rows and column names it fetched.
GetGhgs(f_gas) ==
    /\ q_call' = [op |-> "get_ghgs", f_gas |-> f_gas]
    /\ q_sql' = GhgsBranch(f_gas)
    /\ CASE GhgsBranch(f_gas) = "category" ->
              /\ q_rows' = GhgsCategory(ghgs, f_gas)
              /\ q_colnames' = GhgsColumns
         [] GhgsBranch(f_gas) = "all" ->
              /\ q_rows' = GhgsAll(ghgs)
              /\ q_colnames' = GhgsColumns
         [] GhgsBranch(f_gas) = "default" ->
              /\ q_rows' = GhgsDefault(ghgs)
              /\ q_colnames' = <<"gas", "co2e_20", "co2e_100">>
    /\ UNCHANGED <<country_emissions, ghgs>>
    /\ UNCHANGED <<varsWrite, varsUpsert>>

NextQuery ==
    \/ \E source \in {"edgar", "unfccc"}, gas \in {None, "co2", "co2e_100yr"},
          is_co2e \in BOOLEAN, start_date \in {DefaultStartDate, 2014} :
           LoadData(source, gas, is_co2e, start_date)
    \/ \E f_gas \in {None, "", "all", "hfc"} : GetGhgs(f_gas)

InitQuery == WriteIdle /\ UpsertIdle /\ CallQuery

SpecQuery == InitQuery /\ [][NextQuery]_vars

(***************************************************************************)
(* Properties of the read paths (SpecQuery).                               *)
(***************************************************************************)
Co2e == {"co2e_100yr", "co2e_20yr"}

\* C7: load_data returns only rows of the source from start_date on;
\* without a gas filter, or with one and is_co2e false, none of them is a
\* CO2e row; with a gas filter and is_co2e true it returns every row of the
\* source and the gas from start_date on, CO2e rows included.
C7_LoadDataFilters ==
    q_call.op = "load_data" =>
        /\ \A r \in q_rows :
              /\ r \in country_emissions
              /\ r.reporting_entity = q_call.source
              /\ r.start_time >= q_call.start_date
              /\ q_call.gas # None => r.gas = q_call.gas
              /\ (q_call.gas = None \/ ~q_call.is_co2e) => r.gas \notin Co2e
        /\ (q_call.gas # None /\ q_call.is_co2e) =>
              q_rows = {r \in country_emissions :
                          /\ r.reporting_entity = q_call.source
                          /\ r.gas = q_call.gas
                          /\ r.start_time >= q_call.start_date}
        /\ (q_call.gas = None) =>
              q_rows = {r \in country_emissions :
                          /\ r.reporting_entity = q_call.source
                          /\ r.start_time >= q_call.start_date
                          /\ r.gas \notin Co2e \cup {None}}

C7_Witness ==
    /\ q_call.op = "load_data"
    /\ q_call.gas = "co2e_100yr" /\ q_call.is_co2e
    /\ q_rows # {}
    /\ q_rows # country_emissions

\* C8: get_ghgs(None) fetches the columns gas, co2e_20, co2e_100 over all
\* rows of ghgs; get_ghgs(category) fetches the full rows of that
\* category; the "f_gas_category is NOT NULL" query is executed for no
\* argument, 'all' being taken as a category.
C8_GetGhgsBranches ==
    q_call.op = "get_ghgs" =>
        /\ q_sql # "all"
        /\ q_call.f_gas = None =>
              /\ q_sql = "default"
              /\ Range(q_colnames) = {"gas", "co2e_20", "co2e_100"}
              /\ Len(q_colnames) = 3
              /\ q_rows = {[gas |-> r["lower_designation"], co2e_20 |-> r["gwp_20yr"],
                            co2e_100 |-> r["gwp_100yr"]] : r \in ghgs}
        /\ q_call.f_gas \notin {None, ""} =>
              /\ q_sql = "category"
              /\ q_colnames = GhgsColumns
              /\ q_rows = {r \in ghgs : r["f_gas_category"] = q_call.f_gas}

C8_Witness ==
    /\ q_call.op = "get_ghgs"
    /\ q_call.f_gas = "all"
    /\ q_sql = "category"
    /\ q_rows # {}

(***************************************************************************)
(* Properties of the write paths (Spec).                                   *)
(***************************************************************************)
\* The row of the table that holds this gas.
RowOf(tbl, gas) == CHOOSE s \in tbl : s["gas"] = gas
Holds(tbl, gas) == \E s \in tbl : s["gas"] = gas

\* C1: an incoming row that conflicts with a stored row and equals it on
\* every column but created_date and emissions_quantity makes the stored
\* row take the incoming values and the modified_date stamp when the
\* quantities differ, and leaves the stored row as it was when they are
\* equal.
C1_UpdateIffQuantityDiffers ==
    [][\A rows \in BatchValues :
        (UpsertBatch(rows, "none") /\ log'[Len(log')].outcome = "ok") =>
            \A i \in 1..Len(rows) : \A s \in working :
                LET r == BatchRows(frame_cols, rows, created_date)[i]
                    compared == Range(frame_cols) \ {"created_date", "emissions_quantity"}
                IN  (/\ \A j \in 1..Len(rows) : j # i => rows[j][1] # rows[i][1]
                     /\ Conflicts(StoredRow(Range(frame_cols), r), s)
                     /\ \A c \in compared : s[c] = r[c])
                    => IF s["emissions_quantity"] # r["emissions_quantity"]
                       THEN LET u == RowOf(working', r["gas"])
                            IN  /\ \A c \in Range(frame_cols) \ {"created_date"} : u[c] = r[c]
                                /\ u["created_date"] = s["created_date"]
                                /\ u["modified_date"] = created_date
                       ELSE s \in working']_vars

WriteLog(i) == i \in 1..Len(log) /\ log[i].op = "write_data"

\* C2: in an "edgar" write_data a row that fails on the duplicate
\* constraint is skipped, and a row that fails for any other reason ends
\* the call with the error.
C2_EdgarRaisesOnOtherErrors ==
    rows_type = "edgar" =>
        \A i \in 1..Len(log) : WriteLog(i) =>
            /\ log[i].outcome = "UniqueViolation" => log[i].handled = "skipped"
            /\ log[i].outcome \notin {"ok", "UniqueViolation"} => log[i].handled = "raised"

C5_PriorCommitsStay ==
    result = "raised" =>
        \A i \in 1..Len(log) : log[i].outcome = "ok" =>
            \A g \in log[i].gases : Holds(committed, g)

C5_Witness ==
    /\ result = "raised"
    /\ Len(log) = 2
    /\ log[1].op = "insert_with_update" /\ log[1].outcome = "ok"

\* C6: while write_data renders its rows, the keys of INSERT_MAPPING are
\* the placeholders of the template the call's rows_type chose.
C6_MappingMatchesTemplate ==
    pc = "write_data" /\ rows_type \in {"climate-trace", "edgar"} =>
        DOMAIN INSERT_MAPPING = Placeholders(InsertStr(rows_type))

\* C10: when write_data returns, every row that was new to the table and
\* sound when the loop reached it is in the committed table.
C10_SkipLosesNoOtherRow ==
    result = "returned" =>
        \A i \in 1..Len(log) : WriteLog(i) /\ log[i].fresh =>
            \A g \in log[i].gases : Holds(committed, g)

====
